---- MODULE Spec2Model ----
(***************************************************************************)
(* Model of src/app.py: the text parsers (parse_element, parse_set,        *)
(* parse_universal), the display helpers (sort_result, format_set) and the *)
(* two-set branch of the Streamlit script (widgets, coverage validation,   *)
(* result and highlighted regions, Detailed Regions breakdown).            *)
(*                                                                         *)
(* A Python str is a sequence of one-character strings.  Characters the    *)
(* TLA+ lexer rejects are spelled by name: "cup" is the union sign, "cap"  *)
(* the intersection sign, "emptyset" the empty-set sign.                   *)
(* A set element is a tagged record: IntEl(n) for a Python int, StrEl(s)   *)
(* for a Python str, so that 1 and "1" are different elements.             *)
(***************************************************************************)
EXTENDS Integers, Sequences, FiniteSets, TLC

VARIABLES
    A_input, B_input, U_input, operation,   \* widget state (session state)
    A, B, U,                                \* parsed sets
    missing, warned,                        \* coverage validation
    result, set1, set2, highlight_ids,      \* evaluation
    unknown_error,                          \* st.error("Unknown operation.")
    result_repr,                            \* format_set(result)
    venn,                                   \* patches drawn by plot_venn2_local
    details,                                \* rows of the Detailed Regions expander
    fn, arg, ret, order                     \* a helper function applied on its own

appVars == <<A_input, B_input, U_input, operation, A, B, U, missing, warned,
             result, set1, set2, highlight_ids, unknown_error, result_repr, venn, details>>
fnVars == <<fn, arg, ret, order>>
vars == <<appVars, fnVars>>

----------------------------------------------------------------------------
(* Bounds of the model *)

\* longest text handed to a parser on its own
MaxLen == 4
\* integers 1..MaxInt (and the string "b") are the elements typed into the app
MaxInt == 2
\* largest set handed to format_set on its own
MaxSetSize == 3

----------------------------------------------------------------------------
(* Python values *)

None == [t |-> "none", v |-> 0]
IntEl(n) == [t |-> "int", v |-> n]
StrEl(s) == [t |-> "str", v |-> s]
IsInt(e) == e.t = "int"
IsStr(e) == e.t = "str"

\* "0123456789": the decimal digits, in value order
DIGITS == <<"0", "1", "2", "3", "4", "5", "6", "7", "8", "9">>
DigitSet == {DIGITS[i] : i \in 1..Len(DIGITS)}
DIGIT_VALUE == [c \in DigitSet |-> (CHOOSE i \in 1..Len(DIGITS) : DIGITS[i] = c) - 1]
IsDigit(c) == c \in DigitSet
DigitVal(c) == DIGIT_VALUE[c]

\* str.strip() and int() drop these; the regular expression's \s matches them
IsSpace(c) == c \in {" ", "\t"}

\* code point of a character, the key of Python's str comparison
ord(c) ==
    CASE c = "\t" -> 9
      [] c = " "  -> 32
      [] c = "+"  -> 43
      [] c = ","  -> 44
      [] c = "-"  -> 45
      [] IsDigit(c) -> 48 + DigitVal(c)
      [] c = "_"  -> 95
      [] c = "a"  -> 97
      [] c = "b"  -> 98
      [] c = "{"  -> 123
      [] c = "}"  -> 125

----------------------------------------------------------------------------
(* str methods *)

RECURSIVE lstrip(_)
lstrip(s) == IF s # <<>> /\ IsSpace(Head(s)) THEN lstrip(Tail(s)) ELSE s

RECURSIVE rstrip(_)
rstrip(s) ==
    IF s # <<>> /\ IsSpace(s[Len(s)]) THEN rstrip(SubSeq(s, 1, Len(s) - 1)) ELSE s

\* x.strip()
strip(s) == rstrip(lstrip(s))

\* text.split(sep): always at least one part; an empty text gives [""]
RECURSIVE split_from(_, _, _)
split_from(s, sep, cur) ==
    IF s = <<>> THEN <<cur>>
    ELSE IF Head(s) = sep THEN <<cur>> \o split_from(Tail(s), sep, <<>>)
    ELSE split_from(Tail(s), sep, Append(cur, Head(s)))

split(s, sep) == split_from(s, sep, <<>>)

\* sep.join(parts)
RECURSIVE join(_, _)
join(sep, parts) ==
    IF parts = <<>> THEN <<>>
    ELSE IF Len(parts) = 1 THEN parts[1]
    ELSE parts[1] \o sep \o join(sep, Tail(parts))

\* s1 < s2 on str: lexicographic by code point, a proper prefix is smaller
RECURSIVE str_lt(_, _)
str_lt(s1, s2) ==
    IF s2 = <<>> THEN FALSE
    ELSE IF s1 = <<>> THEN TRUE
    ELSE IF Head(s1) = Head(s2) THEN str_lt(Tail(s1), Tail(s2))
    ELSE ord(Head(s1)) < ord(Head(s2))

----------------------------------------------------------------------------
(* int(x) and str(n) *)

\* the digit part of an int literal: digits, single underscores only between digits
RECURSIVE digit_part_ok(_, _)
digit_part_ok(s, prev_digit) ==
    IF s = <<>> THEN prev_digit
    ELSE IF IsDigit(Head(s)) THEN digit_part_ok(Tail(s), TRUE)
    ELSE IF Head(s) = "_" THEN prev_digit /\ digit_part_ok(Tail(s), FALSE)
    ELSE FALSE

RECURSIVE digit_part_value(_, _)
digit_part_value(s, acc) ==
    IF s = <<>> THEN acc
    ELSE IF Head(s) = "_" THEN digit_part_value(Tail(s), acc)
    ELSE digit_part_value(Tail(s), 10 * acc + DigitVal(Head(s)))

\* int(x) raises ValueError exactly when this is FALSE
int_accepts(x) ==
    LET s == strip(x)
        body == IF s # <<>> /\ Head(s) \in {"+", "-"} THEN Tail(s) ELSE s
    IN  body # <<>> /\ digit_part_ok(body, FALSE)

\* int(x), where int_accepts(x)
int_value(x) ==
    LET s == strip(x)
        neg == s # <<>> /\ Head(s) = "-"
        body == IF s # <<>> /\ Head(s) \in {"+", "-"} THEN Tail(s) ELSE s
        n == digit_part_value(body, 0)
    IN  IF neg THEN 0 - n ELSE n

RECURSIVE nat_str(_)
nat_str(n) == IF n < 10 THEN <<DIGITS[n + 1]>> ELSE Append(nat_str(n \div 10), DIGITS[(n % 10) + 1])

\* str(e) of a set element
str(e) ==
    IF IsStr(e) THEN e.v
    ELSE IF e.v < 0 THEN <<"-">> \o nat_str(0 - e.v) ELSE nat_str(e.v)

----------------------------------------------------------------------------
(* Helper functions of the script *)

\* variant: the fallback keeps the token as typed, padding included
parse_element_unstripped(x) ==
    LET x_str == strip(x)
    IN  IF x_str = <<>> THEN None
        ELSE IF int_accepts(x_str) THEN IntEl(int_value(x_str))
        ELSE StrEl(x)

parse_element(x) ==
    LET x_str == strip(x)
    IN  IF x_str = <<>> THEN None
        ELSE IF int_accepts(x_str) THEN IntEl(int_value(x_str))
        ELSE StrEl(x_str)

\* variant: the loop adds every token's value, None included
RECURSIVE parse_set_loop_keeping_none(_, _)
parse_set_loop_keeping_none(parts, acc) ==
    IF parts = <<>> THEN acc
    ELSE parse_set_loop_keeping_none(Tail(parts), acc \cup {parse_element(Head(parts))})

RECURSIVE parse_set_loop(_, _)
parse_set_loop(parts, acc) ==
    IF parts = <<>> THEN acc
    ELSE LET el == parse_element(Head(parts))
         IN  parse_set_loop(Tail(parts), IF el # None THEN acc \cup {el} ELSE acc)

parse_set(text) == parse_set_loop(split(text, ","), {})

----------------------------------------------------------------------------
(* re.fullmatch(r"\s*([-]?\d+)\s*-\s*([-]?\d+)\s*", txt) *)

\* first index at or after i that holds no whitespace (Len(s) + 1 when none)
RECURSIVE skip_spaces(_, _)
skip_spaces(s, i) == IF i <= Len(s) /\ IsSpace(s[i]) THEN skip_spaces(s, i + 1) ELSE i

\* first index at or after i that holds no digit
RECURSIVE skip_digits(_, _)
skip_digits(s, i) == IF i <= Len(s) /\ IsDigit(s[i]) THEN skip_digits(s, i + 1) ELSE i

skip_minus(s, i) == IF i <= Len(s) /\ s[i] = "-" THEN i + 1 ELSE i

\* the match object: ok, and the two groups when ok
range_match(txt) ==
    LET g1 == skip_spaces(txt, 1)
        d1 == skip_minus(txt, g1)
        e1 == skip_digits(txt, d1)
        m  == skip_spaces(txt, e1)
        g2 == skip_spaces(txt, m + 1)
        d2 == skip_minus(txt, g2)
        e2 == skip_digits(txt, d2)
        z  == skip_spaces(txt, e2)
        ok == /\ e1 > d1
              /\ m <= Len(txt) /\ txt[m] = "-"
              /\ e2 > d2
              /\ z = Len(txt) + 1
    IN  IF ok THEN [ok |-> TRUE, group1 |-> SubSeq(txt, g1, e1 - 1),
                                 group2 |-> SubSeq(txt, g2, e2 - 1)]
        ELSE [ok |-> FALSE, group1 |-> <<>>, group2 |-> <<>>]

\* set(range(lo, hi))
range_set(lo, hi) == {IntEl(n) : n \in lo..(hi - 1)}

\* variant: the bounds are used in the order written
parse_universal_as_written(text) ==
    LET txt == strip(text)
        rm == range_match(txt)
    IN  IF rm.ok
        THEN range_set(int_value(rm.group1), int_value(rm.group2) + 1)
        ELSE parse_set(txt)

parse_universal(text) ==
    LET txt == strip(text)
        rm == range_match(txt)
    IN  IF rm.ok
        THEN LET start == int_value(rm.group1)
                 end == int_value(rm.group2)
             IN  IF start <= end THEN range_set(start, end + 1)
                 ELSE range_set(end, start + 1)
        ELSE parse_set(txt)

----------------------------------------------------------------------------
(* sorted(), sort_result, format_set *)

\* a < b on elements of one type
elem_lt(a, b) == IF IsInt(a) THEN a.v < b.v ELSE str_lt(a.v, b.v)

\* a < b raises TypeError for an int and a str; a sort of two or more elements
\* compares across the types as soon as both occur
raises_TypeError(s) == \E a \in s, b \in s : a.t # b.t

key_lt(a, b, by_str) == IF by_str THEN str_lt(str(a), str(b)) ELSE elem_lt(a, b)

\* place x in the sorted list before the first element it is smaller than (stable)
RECURSIVE insert_sorted(_, _, _)
insert_sorted(x, list, by_str) ==
    IF list = <<>> THEN <<x>>
    ELSE IF key_lt(x, Head(list), by_str) THEN <<x>> \o list
    ELSE <<Head(list)>> \o insert_sorted(x, Tail(list), by_str)

\* sorted(it) / sorted(it, key=str): a stable sort of the iteration order it
RECURSIVE sorted_from(_, _, _)
sorted_from(it, by_str, acc) ==
    IF it = <<>> THEN acc
    ELSE sorted_from(Tail(it), by_str, insert_sorted(Head(it), acc, by_str))

sorted(it, by_str) == sorted_from(it, by_str, <<>>)

Range(q) == {q[i] : i \in 1..Len(q)}

\* variant: the string key is used for every set
sort_result_iter_by_str(it) == sorted(it, TRUE)

\* sort_result, given the order in which the set is iterated
sort_result_iter(it) ==
    IF raises_TypeError(Range(it)) THEN sorted(it, TRUE) ELSE sorted(it, FALSE)

\* one iteration order of a set (Python fixes it by hash and history)
RECURSIVE iter(_)
iter(s) == IF s = {} THEN <<>> ELSE LET x == CHOOSE x \in s : TRUE IN <<x>> \o iter(s \ {x})

sort_result(s) == sort_result_iter(iter(s))

RECURSIVE map_str(_)
map_str(elems) == IF elems = <<>> THEN <<>> ELSE <<str(Head(elems))>> \o map_str(Tail(elems))

format_set_iter(it) ==
    IF it = <<>> THEN <<"emptyset">>
    ELSE LET elems == sort_result_iter(it)
         IN  <<"{">> \o join(<<",", " ">>, map_str(elems)) \o <<"}">>

format_set(s) == format_set_iter(iter(s))

----------------------------------------------------------------------------
(* The script, two-set mode (show_venn checked, num_sets == 2) *)

\* default_examples[2] and the default of the Universal Set field
DEFAULT_A == <<"2", ",", " ", "4", ",", " ", "6", ",", " ", "8">>
DEFAULT_B == <<"3", ",", " ", "4", ",", " ", "5", ",", " ", "6", ",", " ", "9">>
DEFAULT_U == <<"1", "-", "1", "0">>

\* options of "Choose Operation (2 sets)"
TWO_SET_MENU ==
    << <<"A", " ", "cup", " ", "B">>,
       <<"A", " ", "cap", " ", "B">>,
       <<"A", " ", "\\", " ", "B">>,
       <<"B", " ", "\\", " ", "A">>,
       <<"C", "o", "m", "p", "l", "e", "m", "e", "n", "t", " ", "o", "f", " ", "A">>,
       <<"C", "o", "m", "p", "l", "e", "m", "e", "n", "t", " ", "o", "f", " ", "B">>,
       <<"C", "o", "m", "p", "l", "e", "m", "e", "n", "t", " ", "o", "f", " ", "(", "A", " ", "cup", " ", "B", ")">>,
       <<"C", "o", "m", "p", "l", "e", "m", "e", "n", "t", " ", "o", "f", " ", "(", "A", " ", "cap", " ", "B", ")">> >>

\* options of "Choose Operation (3 sets)"
THREE_SET_MENU ==
    << <<"A", " ", "cup", " ", "B", " ", "cup", " ", "C">>,
       <<"A", " ", "cap", " ", "B", " ", "cap", " ", "C">>,
       <<"A", " ", "\\", " ", "(", "B", " ", "cup", " ", "C", ")">>,
       <<"B", " ", "\\", " ", "(", "A", " ", "cup", " ", "C", ")">>,
       <<"C", " ", "\\", " ", "(", "A", " ", "cup", " ", "B", ")">>,
       <<"(", "A", " ", "cap", " ", "B", ")", " ", "\\", " ", "C">>,
       <<"(", "A", " ", "cap", " ", "C", ")", " ", "\\", " ", "B">>,
       <<"(", "B", " ", "cap", " ", "C", ")", " ", "\\", " ", "A">>,
       <<"C", "o", "m", "p", "l", "e", "m", "e", "n", "t", " ", "o", "f", " ", "A">>,
       <<"C", "o", "m", "p", "l", "e", "m", "e", "n", "t", " ", "o", "f", " ", "B">>,
       <<"C", "o", "m", "p", "l", "e", "m", "e", "n", "t", " ", "o", "f", " ", "C">>,
       <<"C", "o", "m", "p", "l", "e", "m", "e", "n", "t", " ", "o", "f", " ", "(", "A", " ", "cup", " ", "B", " ", "cup", " ", "C", ")">>,
       <<"C", "o", "m", "p", "l", "e", "m", "e", "n", "t", " ", "o", "f", " ", "(", "A", " ", "cap", " ", "B", " ", "cap", " ", "C", ")">> >>

\* needle in haystack, on str
RECURSIVE contains(_, _)
contains(haystack, needle) ==
    IF Len(haystack) < Len(needle) THEN FALSE
    ELSE IF SubSeq(haystack, 1, Len(needle)) = needle THEN TRUE
    ELSE contains(Tail(haystack), needle)

\* rid in hids, on a list
in_list(x, list) == \E i \in 1..Len(list) : list[i] = x

\* variant: only the elements of A are looked up in U
validate_a_only(a, b, u, op) ==
    IF contains(op, <<"C", "o", "m", "p", "l", "e", "m", "e", "n", "t">>)
    THEN LET m == a \ u
         IN  [missing |-> m, shown |-> m # {},
              text |-> IF m # {} THEN format_set(m) ELSE <<>>]
    ELSE [missing |-> {}, shown |-> FALSE, text |-> <<>>]

\* "Validate universal coverage for complements": the set named missing (empty
\* when the check is skipped) and the sidebar message, when one is surfaced
validate(a, b, u, op) ==
    IF contains(op, <<"C", "o", "m", "p", "l", "e", "m", "e", "n", "t">>)
    THEN LET m == (a \ u) \cup (b \ u)
         IN  [missing |-> m, shown |-> m # {},
              text |-> IF m # {} THEN format_set(m) ELSE <<>>]
    ELSE [missing |-> {}, shown |-> FALSE, text |-> <<>>]

branch(res, s1, s2, hids) ==
    [result |-> res, set1 |-> s1, set2 |-> s2, highlight_ids |-> hids, error |-> FALSE]

\* variant: the overlap is not highlighted
union_branch_without_overlap(a, b, u) == branch(a \cup b, a, b, <<"10", "01">>)
union_branch(a, b, u) == branch(a \cup b, a, b, <<"10", "01", "11">>)
inter_branch(a, b, u) == branch(a \cap b, a, b, <<"11">>)
a_minus_b_branch(a, b, u) == branch(a \ b, a, b, <<"10">>)
b_minus_a_branch(a, b, u) == branch(b \ a, a, b, <<"01">>)
\* variant: the universal set is first widened by the input sets
complement_a_branch_widened(a, b, u) == branch((u \cup a \cup b) \ a, u, a, <<"10">>)
complement_a_branch(a, b, u) == branch(u \ a, u, a, <<"10">>)
complement_b_branch(a, b, u) == branch(u \ b, u, b, <<"10">>)
\* variant: the diagram is drawn against A alone
complement_union_branch_against_a(a, b, u) ==
    LET union == a \cup b IN branch(u \ union, u, a, <<"10">>)
complement_union_branch(a, b, u) ==
    LET union == a \cup b IN branch(u \ union, u, union, <<"10">>)
complement_inter_branch(a, b, u) ==
    LET inter == a \cap b IN branch(u \ inter, u, inter, <<"10">>)
\* variant: the rendered sets are left as they were
unknown_branch_keeping_sets(a, b, u) ==
    [result |-> {}, set1 |-> a, set2 |-> b, highlight_ids |-> <<>>, error |-> TRUE]
\* else: st.error("Unknown operation."), everything empty
unknown_branch(a, b, u) ==
    [result |-> {}, set1 |-> {}, set2 |-> {}, highlight_ids |-> <<>>, error |-> TRUE]

\* "Compute result & highlight region IDs", the if/elif chain on the operation name
evaluate(a, b, u, op) ==
    IF op = <<"A", " ", "cup", " ", "B">> THEN union_branch(a, b, u)
    ELSE IF op = <<"A", " ", "cap", " ", "B">> THEN inter_branch(a, b, u)
    ELSE IF op = <<"A", " ", "\\", " ", "B">> THEN a_minus_b_branch(a, b, u)
    ELSE IF op = <<"B", " ", "\\", " ", "A">> THEN b_minus_a_branch(a, b, u)
    ELSE IF op = <<"C", "o", "m", "p", "l", "e", "m", "e", "n", "t", " ", "o", "f", " ", "A">> THEN complement_a_branch(a, b, u)
    ELSE IF op = <<"C", "o", "m", "p", "l", "e", "m", "e", "n", "t", " ", "o", "f", " ", "B">> THEN complement_b_branch(a, b, u)
    ELSE IF op = <<"C", "o", "m", "p", "l", "e", "m", "e", "n", "t", " ", "o", "f", " ", "(", "A", " ", "cup", " ", "B", ")">>
         THEN complement_union_branch(a, b, u)
    ELSE IF op = <<"C", "o", "m", "p", "l", "e", "m", "e", "n", "t", " ", "o", "f", " ", "(", "A", " ", "cap", " ", "B", ")">>
         THEN complement_inter_branch(a, b, u)
    ELSE unknown_branch(a, b, u)

\* plot_venn2_local: venn2 draws a patch for each non-empty region of (s1, s2);
\* a patch of a highlighted region gets result_lw, another normal_lw or inter_lw
plot_venn2_local(s1, s2, hids) ==
    LET size == [rid \in {"10", "01", "11"} |->
                    Cardinality(IF rid = "10" THEN s1 \ s2
                                ELSE IF rid = "01" THEN s2 \ s1 ELSE s1 \cap s2)]
    IN  [rid \in {"10", "01", "11"} |->
            IF size[rid] = 0 THEN "no patch"
            ELSE IF in_list(rid, hids) THEN "result_lw"
            ELSE IF rid = "11" THEN "inter_lw" ELSE "normal_lw"]

\* one row of the Detailed Regions expander
region_row(label, subset, rid, hids) ==
    [label |-> label, subset |-> subset, rid |-> rid,
     incl |-> in_list(rid, hids), text |-> format_set(subset)]

\* "Resulting Set": the rows of Detailed Regions, none when the result is empty
detailed_regions(a, b, res, hids) ==
    IF res # {}
    THEN LET A_only == a \ b
             B_only == b \ a
             AB == a \cap b
         IN  << region_row("A only", A_only, "10", hids),
                region_row("B only", B_only, "01", hids),
                region_row("A cap B", AB, "11", hids) >>
    ELSE <<>>

\* the script from the parsed sets on (validation, evaluation, display)
run(a, b, u, op) ==
    LET val == validate(a, b, u, op)
        ev == evaluate(a, b, u, op)
    IN  [A |-> a, B |-> b, U |-> u,
         missing |-> val.missing, warned |-> [shown |-> val.shown, text |-> val.text],
         result |-> ev.result, set1 |-> ev.set1, set2 |-> ev.set2,
         highlight_ids |-> ev.highlight_ids, unknown_error |-> ev.error,
         result_repr |-> format_set(ev.result),
         venn |-> plot_venn2_local(ev.set1, ev.set2, ev.highlight_ids),
         details |-> detailed_regions(a, b, ev.result, ev.highlight_ids)]

\* one run of the script on the widgets' values: everything it computes and shows
script(a_in, b_in, u_in, op) ==
    run(parse_set(a_in), parse_set(b_in), parse_universal(u_in), op)

----------------------------------------------------------------------------
(* Inputs *)

\* what a user types as one element of a set
AppTokens == {nat_str(i) : i \in 1..MaxInt} \cup {<<"b">>}

\* the elements written out with ", " between them, as in the defaults
text_of(tokens) == join(<<",", " ">>, iter(tokens))

\* a text with padding, a repeated element, an empty token and a signed number
MESSY_TEXT == <<" ", "1", " ", ",", "1", ",", ",", "+", "1", ",", " ", "b">>

SetTexts == {DEFAULT_A, DEFAULT_B, MESSY_TEXT} \cup {text_of(S) : S \in SUBSET AppTokens}

\* the default, ranges up to MaxInt in either direction, and lists
UniversalTexts ==
    {DEFAULT_U, <<>>, <<"b">>, <<"1", ",", " ", "b">>}
      \cup {nat_str(i) \o <<"-">> \o nat_str(MaxInt) : i \in 1..MaxInt}
      \cup {nat_str(MaxInt) \o <<"-">> \o nat_str(1)}

Menu == Range(TWO_SET_MENU)

\* characters of the texts handed to the parsers on their own
ALPHABET == {" ", ",", "-", "+", "_", "0", "1", "b"}

\* the texts the documentation and the interface name
EXAMPLE_TEXTS ==
    { <<"1", ",", "1", ",", "2">>,
      <<"3", "-", "7">>,
      <<"7", "-", "3">>,
      <<"5", ",", "1", "0">>,
      <<"-", "5">>,
      <<" ", "3", " ", "-", " ", "7", " ">>,
      <<"1", "_", "0">>,
      DEFAULT_A, DEFAULT_B, DEFAULT_U, MESSY_TEXT }

Texts == UNION {[1..n -> ALPHABET] : n \in 0..MaxLen} \cup EXAMPLE_TEXTS

FormatElements ==
    {IntEl(3), IntEl(1), IntEl(2), IntEl(10), IntEl(0 - 1),
     StrEl(<<"b">>), StrEl(<<"1">>), StrEl(<<"a", "b">>)}

FormatSets == {S \in SUBSET FormatElements : Cardinality(S) <= MaxSetSize}

\* every order in which a set may be iterated
Orders(S) ==
    {q \in [1..Cardinality(S) -> S] : \A i, j \in 1..Cardinality(S) : q[i] = q[j] => i = j}

RunElements == {IntEl(i) : i \in 1..MaxInt} \cup {StrEl(<<"b">>)}
\* the names of both menus: those of the three-set menu alone have no branch
AnyOperation == Range(TWO_SET_MENU) \cup Range(THREE_SET_MENU)

----------------------------------------------------------------------------
(* The application: the widgets hold their defaults, the script has run once *)

\* the script is a function of the four widget values: its runs, tabulated
SCRIPT_RUNS ==
    [a_in \in SetTexts |-> [b_in \in SetTexts |-> [u_in \in UniversalTexts |->
        [op \in Menu |-> script(a_in, b_in, u_in, op)]]]]

Shows(s) ==
    /\ A = s.A /\ B = s.B /\ U = s.U
    /\ missing = s.missing /\ warned = s.warned
    /\ result = s.result /\ set1 = s.set1 /\ set2 = s.set2
    /\ highlight_ids = s.highlight_ids /\ unknown_error = s.unknown_error
    /\ result_repr = s.result_repr /\ venn = s.venn /\ details = s.details

Init ==
    /\ A_input = DEFAULT_A /\ B_input = DEFAULT_B /\ U_input = DEFAULT_U
    /\ operation = TWO_SET_MENU[1]
    /\ Shows(SCRIPT_RUNS[DEFAULT_A][DEFAULT_B][DEFAULT_U][TWO_SET_MENU[1]])
    /\ fn = "idle" /\ arg = <<>> /\ ret = <<>> /\ order = <<>>

\* a widget changed: Streamlit reruns the script from the top
Rerun(a_in, b_in, u_in, op) ==
    /\ A_input' = a_in /\ B_input' = b_in /\ U_input' = u_in /\ operation' = op
    /\ \E s \in {SCRIPT_RUNS[a_in][b_in][u_in][op]} :
           /\ A' = s.A /\ B' = s.B /\ U' = s.U
           /\ missing' = s.missing /\ warned' = s.warned
           /\ result' = s.result /\ set1' = s.set1 /\ set2' = s.set2
           /\ highlight_ids' = s.highlight_ids /\ unknown_error' = s.unknown_error
           /\ result_repr' = s.result_repr /\ venn' = s.venn /\ details' = s.details
    /\ UNCHANGED fnVars

EditA == \E text \in SetTexts \ {A_input} : Rerun(text, B_input, U_input, operation)
EditB == \E text \in SetTexts \ {B_input} : Rerun(A_input, text, U_input, operation)
EditU == \E text \in UniversalTexts \ {U_input} : Rerun(A_input, B_input, text, operation)
SelectOperation == \E op \in Menu \ {operation} : Rerun(A_input, B_input, U_input, op)

Next == EditA \/ EditB \/ EditU \/ SelectOperation

Spec == Init /\ [][Next]_vars

----------------------------------------------------------------------------
(* The helper functions applied on their own, to any input *)

CallParseElement ==
    /\ fn = "idle"
    /\ \E x \in Texts :
        fn' = "parse_element" /\ arg' = x /\ order' = <<>> /\ ret' = parse_element(x)
    /\ UNCHANGED appVars

CallParseSet ==
    /\ fn = "idle"
    /\ \E text \in Texts :
        fn' = "parse_set" /\ arg' = text /\ order' = <<>> /\ ret' = parse_set(text)
    /\ UNCHANGED appVars

CallParseUniversal ==
    /\ fn = "idle"
    /\ \E text \in Texts :
        fn' = "parse_universal" /\ arg' = text /\ order' = <<>>
            /\ ret' = parse_universal(text)
    /\ UNCHANGED appVars

\* the set is iterated in an order the caller does not control
CallFormatSet ==
    /\ fn = "idle"
    /\ \E s \in FormatSets : \E it \in Orders(s) :
        fn' = "format_set" /\ arg' = s /\ order' = it
            /\ ret' = [elems |-> IF it = <<>> THEN <<>> ELSE sort_result_iter(it),
                       text |-> format_set_iter(it)]
    /\ UNCHANGED appVars

\* the script from the parsed sets on, under any operation name of the two menus
CallRun ==
    /\ fn = "idle"
    /\ \E a \in SUBSET RunElements, b \in SUBSET RunElements, u \in SUBSET RunElements :
        \E op \in AnyOperation :
            fn' = "run" /\ arg' = [A |-> a, B |-> b, U |-> u, operation |-> op]
                /\ order' = <<>> /\ ret' = run(a, b, u, op)
    /\ UNCHANGED appVars

Return ==
    /\ fn # "idle"
    /\ fn' = "idle" /\ arg' = <<>> /\ ret' = <<>> /\ order' = <<>>
    /\ UNCHANGED appVars

NextFn ==
    \/ CallParseElement \/ CallParseSet \/ CallParseUniversal
    \/ CallFormatSet \/ CallRun \/ Return

SpecFn == Init /\ [][NextFn]_vars

----------------------------------------------------------------------------
(* What the claims speak of, stated without the parsers *)

\* x without its leading and trailing whitespace
Stripped(x) ==
    LET n == Len(x)
        blank == \A k \in 1..n : IsSpace(x[k])
        first == IF blank THEN n + 1
                 ELSE CHOOSE i \in 1..n : ~IsSpace(x[i]) /\ \A k \in 1..(i - 1) : IsSpace(x[k])
        last == IF blank THEN n
                ELSE CHOOSE j \in 1..n : ~IsSpace(x[j]) /\ \A k \in (j + 1)..n : IsSpace(x[k])
    IN  SubSeq(x, first, last)

Unsigned(s) == IF s # <<>> /\ s[1] \in {"+", "-"} THEN Tail(s) ELSE s
UnsignedMinus(s) == IF s # <<>> /\ s[1] = "-" THEN Tail(s) ELSE s
AllDigits(s) == s # <<>> /\ \A k \in 1..Len(s) : IsDigit(s[k])

\* an optionally signed decimal integer: [+-]?[0-9]+
IsSignedDecimal(s) == AllDigits(Unsigned(s))

\* what int() accepts: [+-]?[0-9]+(_[0-9]+)*
IsIntLiteral(s) ==
    LET d == Unsigned(s)
    IN  /\ d # <<>>
        /\ \A k \in 1..Len(d) : IsDigit(d[k]) \/ d[k] = "_"
        /\ IsDigit(d[1]) /\ IsDigit(d[Len(d)])
        /\ \A k \in 1..(Len(d) - 1) : ~(d[k] = "_" /\ d[k + 1] = "_")

\* the number a run of decimal digits denotes
RECURSIVE DigitsValue(_)
DigitsValue(d) ==
    IF d = <<>> THEN 0
    ELSE 10 * DigitsValue(SubSeq(d, 1, Len(d) - 1)) + DigitVal(d[Len(d)])

\* the integer an int literal denotes (underscores are separators only)
LiteralValue(s) ==
    LET n == DigitsValue(SelectSeq(Unsigned(s), LAMBDA c : c # "_"))
    IN  IF s[1] = "-" THEN 0 - n ELSE n

\* the comma-separated tokens of a text: its maximal comma-free stretches
TokensOf(text) ==
    LET n == Len(text)
    IN  {SubSeq(text, i, j) : <<i, j>> \in
            {p \in (1..(n + 1)) \X (0..n) :
                /\ p[1] <= p[2] + 1
                /\ (p[1] = 1 \/ text[p[1] - 1] = ",")
                /\ (p[2] = n \/ text[p[2] + 1] = ",")
                /\ \A k \in p[1]..p[2] : text[k] # ","}}

\* an integer, optionally negative, with whitespace around it: \s*-?[0-9]+\s*
IsPaddedInt(s) == AllDigits(UnsignedMinus(Stripped(s)))
PaddedIntValue(s) ==
    LET t == Stripped(s)
        n == DigitsValue(UnsignedMinus(t))
    IN  IF t[1] = "-" THEN 0 - n ELSE n

\* the positions of the "-" that separates the bounds of a text '<int>-<int>'
RangeDashes(text) ==
    {m \in 1..Len(text) :
        /\ text[m] = "-"
        /\ IsPaddedInt(SubSeq(text, 1, m - 1))
        /\ IsPaddedInt(SubSeq(text, m + 1, Len(text)))}

IntRange(lo, hi) == {IntEl(n) : n \in lo..hi}
Min(a, b) == IF a <= b THEN a ELSE b
Max(a, b) == IF a <= b THEN b ELSE a

\* s1 <= s2 in dictionary order of the characters' code points
StrLeq(s1, s2) ==
    \/ Len(s1) <= Len(s2) /\ SubSeq(s2, 1, Len(s1)) = s1
    \/ \E k \in 1..Min(Len(s1), Len(s2)) :
          /\ SubSeq(s1, 1, k - 1) = SubSeq(s2, 1, k - 1)
          /\ ord(s1[k]) < ord(s2[k])

\* '{' + the elements joined by ', ' + '}'
RECURSIVE Listing(_)
Listing(q) ==
    IF Len(q) = 1 THEN str(q[1]) ELSE str(q[1]) \o <<",", " ">> \o Listing(Tail(q))
Braced(q) == <<"{">> \o Listing(q) \o <<"}">>

OP_UNION == TWO_SET_MENU[1]
OP_COMPLEMENT_A == TWO_SET_MENU[5]
OP_COMPLEMENT_B == TWO_SET_MENU[6]
OP_COMPLEMENT_UNION == TWO_SET_MENU[7]
OP_COMPLEMENT_INTER == TWO_SET_MENU[8]
ComplementOps == {OP_COMPLEMENT_A, OP_COMPLEMENT_B, OP_COMPLEMENT_UNION, OP_COMPLEMENT_INTER}

\* the set a complement operation complements
Operand(op, a, b) ==
    IF op = OP_COMPLEMENT_A THEN a
    ELSE IF op = OP_COMPLEMENT_B THEN b
    ELSE IF op = OP_COMPLEMENT_UNION THEN a \cup b
    ELSE a \cap b

\* the region of the diagram of (s1, s2) an identifier names
Region(rid, s1, s2) ==
    IF rid = "10" THEN s1 \ s2 ELSE IF rid = "01" THEN s2 \ s1 ELSE s1 \cap s2
RegionIds == {"10", "01", "11"}

----------------------------------------------------------------------------
(* Claims about the helper functions (SpecFn) *)

\* C1, as stated: parse_element returns None exactly when the stripped text is
\* empty; it returns the integer when the stripped text is an optionally signed
\* decimal integer ([+-]?[0-9]+), and the stripped string itself in every other case.
C1_AsStated ==
    fn = "parse_element" =>
        LET x_str == Stripped(arg)
        IN  /\ ret.t \in {"none", "int", "str"}
            /\ (ret = None) <=> (x_str = <<>>)
            /\ IsSignedDecimal(x_str) => ret = IntEl(LiteralValue(x_str))
            /\ (x_str # <<>> /\ ~IsSignedDecimal(x_str)) => ret = StrEl(x_str)

\* C1, amended: parse_element is total. It returns None exactly when the stripped
\* text is empty; the integer when the stripped text is what int() accepts, an
\* optionally signed run of decimal digits in which single underscores may
\* separate digits; and the stripped string itself in every other case.
C1_ParseElementTotal ==
    fn = "parse_element" =>
        LET x_str == Stripped(arg)
        IN  /\ ret.t \in {"none", "int", "str"}
            /\ (ret = None) <=> (x_str = <<>>)
            /\ IsIntLiteral(x_str) => ret = IntEl(LiteralValue(x_str))
            /\ (x_str # <<>> /\ ~IsIntLiteral(x_str)) => ret = StrEl(x_str)

\* a padded, signed integer token has been parsed to its integer
C1_Witness ==
    /\ fn = "parse_element"
    /\ arg = <<" ", "-", "1", "0">>
    /\ ret = IntEl(0 - 10)

\* C2: parse_set returns exactly the parse_element values of the comma-split
\* tokens that are not None: duplicates collapse, empty tokens add nothing, None
\* is never a member; "1,1,2" gives {1, 2} and "" gives the empty set.
C2_ParseSetIsTokenValues ==
    fn = "parse_set" =>
        /\ ret = {parse_element(tok) : tok \in TokensOf(arg)} \ {None}
        /\ None \notin ret
        /\ \A e \in ret : \E tok \in TokensOf(arg) : Stripped(tok) # <<>>
        /\ arg = <<"1", ",", "1", ",", "2">> => ret = {IntEl(1), IntEl(2)}
        /\ arg = <<>> => ret = {}

\* a text with a repeated token has been parsed: three tokens, two elements
C2_Witness ==
    /\ fn = "parse_set"
    /\ arg = <<"1", ",", "1", ",", "2">>
    /\ Cardinality(ret) = 2

\* C3: on a text '<int>-<int>' parse_universal returns the inclusive range from
\* the smaller bound to the larger, whichever is written first; on any other text
\* it returns what parse_set returns for it.
C3_ParseUniversalRangeOrSet ==
    fn = "parse_universal" =>
        LET dashes == RangeDashes(arg)
        IN  IF dashes # {}
            THEN \A m \in dashes :
                    LET a == PaddedIntValue(SubSeq(arg, 1, m - 1))
                        b == PaddedIntValue(SubSeq(arg, m + 1, Len(arg)))
                    IN  ret = IntRange(Min(a, b), Max(a, b))
            ELSE ret = parse_set(arg)

\* a range written high-to-low has been parsed to the low-to-high range
C3_Witness ==
    /\ fn = "parse_universal"
    /\ arg = <<"7", "-", "3">>
    /\ ret = IntRange(3, 7)

\* C8: format_set renders the empty set as the empty-set sign and a non-empty set
\* as '{' + elements joined by ', ' + '}', each element once, ascending when all
\* are integers and by string representation when integers and strings are mixed.
C8_FormatSetOrdered ==
    fn = "format_set" =>
        LET q == ret.elems
            ints == \A e \in arg : IsInt(e)
            mixed == (\E e \in arg : IsInt(e)) /\ (\E e \in arg : IsStr(e))
        IN  IF arg = {} THEN ret.text = <<"emptyset">>
            ELSE /\ Len(q) = Cardinality(arg) /\ Range(q) = arg
                 /\ ret.text = Braced(q)
                 /\ ints => \A i \in 1..(Len(q) - 1) : q[i].v < q[i + 1].v
                 /\ mixed => \A i \in 1..(Len(q) - 1) : StrLeq(str(q[i]), str(q[i + 1]))
                 /\ arg = {IntEl(3), IntEl(1), IntEl(2)} => ret.text = <<"{", "1", ",", " ", "2", ",", " ", "3", "}">>
                 /\ arg = {IntEl(1), StrEl(<<"b">>), IntEl(2)} => ret.text = <<"{", "1", ",", " ", "2", ",", " ", "b", "}">>

\* a mixed set has been formatted from an iteration order that is not the shown one
C8_Witness ==
    /\ fn = "format_set"
    /\ arg = {IntEl(1), StrEl(<<"b">>), IntEl(2)}
    /\ order = <<StrEl(<<"b">>), IntEl(2), IntEl(1)>>
    /\ ret.text = <<"{", "1", ",", " ", "2", ",", " ", "b", "}">>

\* C7: an operation name that is none of the eight two-set operations gives the
\* error message and the run goes on with an empty result, empty rendered sets
\* and no highlighted region; each of the eight names of the menu has a branch.
C7_UnknownOperationFallsBack ==
    fn = "run" =>
        IF arg.operation \in Range(TWO_SET_MENU)
        THEN ~ret.unknown_error
        ELSE /\ ret.unknown_error
             /\ ret.result = {} /\ ret.set1 = {} /\ ret.set2 = {}
             /\ ret.highlight_ids = <<>>
             /\ ret.result_repr = <<"emptyset">>
             /\ \A rid \in RegionIds : ret.venn[rid] = "no patch"
             /\ ret.details = <<>>

\* the run has met a name of the three-set menu with non-empty sets
C7_Witness ==
    /\ fn = "run"
    /\ arg.operation = THREE_SET_MENU[1]
    /\ arg.A # {} /\ arg.B # {} /\ arg.U # {}
    /\ ret.unknown_error

----------------------------------------------------------------------------
(* Claims about the application in two-set mode (Spec) *)

\* C4: under "A cup B" the result is the union of A \ B, B \ A and A cap B, the
\* three parts (the rows of Detailed Regions) are pairwise disjoint, and the
\* highlighted region identifiers are exactly {"10", "01", "11"}.
C4_UnionIsPartition ==
    operation = OP_UNION =>
        /\ result = (A \ B) \cup (B \ A) \cup (A \cap B)
        /\ Range(highlight_ids) = {"10", "01", "11"}
        /\ result # {} =>
            /\ Len(details) = 3
            /\ details[1].subset = A \ B /\ details[2].subset = B \ A
            /\ details[3].subset = A \cap B
            /\ result = UNION {details[i].subset : i \in 1..3}
            /\ \A i, j \in 1..3 : i # j => details[i].subset \cap details[j].subset = {}

\* the union has been taken, after an edit of A, of two sets that overlap and each
\* have elements of their own
C4_Witness ==
    /\ operation = OP_UNION
    /\ A_input = MESSY_TEXT /\ B_input # DEFAULT_B
    /\ A \ B # {} /\ B \ A # {} /\ A \cap B # {}
    /\ Cardinality(result) = Cardinality(A \ B) + Cardinality(B \ A) + Cardinality(A \cap B)

\* C5: each complement operation returns U minus its operand, so the result is a
\* subset of U and disjoint from the operand, also when U lacks elements of A or
\* B; with U = {1..10} and A = {2,4,6,8}, "Complement of A" gives {1,3,5,7,9,10}.
C5_ComplementIsUMinusOperand ==
    operation \in ComplementOps =>
        /\ operation = OP_COMPLEMENT_A => result = U \ A
        /\ operation = OP_COMPLEMENT_B => result = U \ B
        /\ operation = OP_COMPLEMENT_UNION => result = U \ (A \cup B)
        /\ operation = OP_COMPLEMENT_INTER => result = U \ (A \cap B)
        /\ result \subseteq U
        /\ result \cap Operand(operation, A, B) = {}
        /\ (operation = OP_COMPLEMENT_A /\ U = IntRange(1, 10)
                /\ A = {IntEl(2), IntEl(4), IntEl(6), IntEl(8)})
            => result = {IntEl(1), IntEl(3), IntEl(5), IntEl(7), IntEl(9), IntEl(10)}

\* a complement has been taken against a universal set that lacks an element of A
C5_Witness ==
    /\ operation = OP_COMPLEMENT_A
    /\ A \ U # {} /\ A \cap U # {}
    /\ result # {}

\* C6: the coverage warning is surfaced exactly when the operation is a complement
\* and some element of A or B is absent from U; it lists exactly (A \ U) cup
\* (B \ U); with or without it the result is computed from the given U; the four
\* other operations never surface it.
C6_WarningIffUncovered ==
    LET uncovered == (A \ U) \cup (B \ U)
    IN  /\ warned.shown <=> (operation \in ComplementOps /\ uncovered # {})
        /\ warned.shown => (missing = uncovered /\ warned.text = Braced(sort_result(uncovered)))
        /\ ~warned.shown => warned.text = <<>>
        /\ operation \in ComplementOps => result = U \ Operand(operation, A, B)
        /\ operation \notin ComplementOps => ~warned.shown

\* the warning is up, for an element of B only, and a result is shown all the same
C6_Witness ==
    /\ warned.shown
    /\ A \subseteq U /\ B \ U # {}
    /\ result # {}

\* C9: the highlighted regions, read on the rendered pair (set1, set2), are the
\* result: their union equals it and no other region holds an element of it; a
\* complement renders (U, operand) and highlights exactly region "10".
C9_HighlightsMatchResult ==
    LET hl == Range(highlight_ids)
    IN  /\ hl \subseteq RegionIds
        /\ UNION {Region(rid, set1, set2) : rid \in hl} = result
        /\ \A rid \in RegionIds \ hl : Region(rid, set1, set2) \cap result = {}
        /\ \A rid \in RegionIds :
              venn[rid] = "result_lw" <=> (rid \in hl /\ Region(rid, set1, set2) # {})
        /\ operation \in ComplementOps =>
              /\ set1 = U /\ set2 = Operand(operation, A, B)
              /\ highlight_ids = <<"10">>
        /\ operation \notin ComplementOps => (set1 = A /\ set2 = B)

\* the complement of a union is shown: U against A cup B, with both circles filled
C9_Witness ==
    /\ operation = OP_COMPLEMENT_UNION
    /\ A \ B # {} /\ B \ A # {}
    /\ result # {} /\ set2 \cap U # {}
    /\ venn["10"] = "result_lw"

\* C10: in Detailed Regions, shown whenever the result is non-empty, a region
\* ('A only', 'B only', 'A cap B') carries the inclusion mark exactly when its
\* elements belong to the result, under every one of the eight operations.
C10_IndicatorsMatchResult ==
    /\ (details # <<>>) <=> (result # {})
    /\ \A i \in 1..Len(details) :
          /\ details[i].incl => details[i].subset \subseteq result
          /\ ~details[i].incl => details[i].subset \cap result = {}

====
